---- MODULE Spec2Model ----
(***************************************************************************)
(* Ranking core of the ESAG Art Hub demo pages.                            *)
(*                                                                         *)
(*   demo0.py               order_artworks (keyword + fuzzy + rank blend)  *)
(*   demo.py                recommend_artworks_with_openai (prefix match)  *)
(*   demo_dup.py            recommend_artworks_with_openai (prefix or      *)
(*                          substring match)                               *)
(*   demo_prototype_ESAG.py recommend_artworks_with_openai (similarity     *)
(*                          ratio, used-index set)                         *)
(*                                                                         *)
(* A Python str is a sequence of one-character strings.  The en dash and   *)
(* the em dash of the source are written "EN" and "EM".  Fractions are     *)
(* pairs <<numerator, denominator>> with a positive denominator, compared  *)
(* exactly, so no score is rounded.                                        *)
(***************************************************************************)
EXTENDS Integers, Sequences, FiniteSets, TLC

VARIABLES artworks, query, api_key, oracle, pc, result,
          session_state, run, event, gallery

\* the session of the demo_prototype_ESAG.py page
ui == <<session_state, run, event, gallery>>

vars == <<artworks, query, api_key, oracle, pc, result, session_state, run, event, gallery>>

-----------------------------------------------------------------------------
(* Characters and strings                                                  *)

NL == "\n"
EN == "EN"
EM == "EM"

Digits == {"0", "1", "2", "3", "4", "5", "6", "7", "8", "9"}
Whitespace == {" ", NL}

\* str.lower() on one character
LowerChar(c) ==
  CASE c = "A" -> "a"
    [] c = "B" -> "b"
    [] c = "C" -> "c"
    [] c = "D" -> "d"
    [] c = "X" -> "x"
    [] OTHER -> c

\* str.lower()
lower(s) == [i \in 1..Len(s) |-> LowerChar(s[i])]

\* code point order of the characters the model uses (ASCII, then the dashes)
Ord(c) ==
  CASE c = NL -> 10
    [] c = " " -> 32
    [] c = "\"" -> 34
    [] c = "*" -> 42
    [] c = "-" -> 45
    [] c = "." -> 46
    [] c = "0" -> 48
    [] c = "1" -> 49
    [] c = "2" -> 50
    [] c = "3" -> 51
    [] c = "4" -> 52
    [] c = "5" -> 53
    [] c = "6" -> 54
    [] c = "7" -> 55
    [] c = "8" -> 56
    [] c = "9" -> 57
    [] c = ":" -> 58
    [] c = "A" -> 65
    [] c = "B" -> 66
    [] c = "C" -> 67
    [] c = "D" -> 68
    [] c = "X" -> 88
    [] c = "a" -> 97
    [] c = "b" -> 98
    [] c = "c" -> 99
    [] c = "d" -> 100
    [] c = "x" -> 120
    [] c = "y" -> 121
    [] c = "z" -> 122
    [] c = EN -> 8211
    [] c = EM -> 8212

\* s < t in Python's string order
RECURSIVE StrLess(_, _)
StrLess(s, t) ==
  IF t = <<>> THEN FALSE
  ELSE IF s = <<>> THEN TRUE
  ELSE IF Ord(s[1]) # Ord(t[1]) THEN Ord(s[1]) < Ord(t[1])
  ELSE StrLess(Tail(s), Tail(t))

\* s[i:j] with 1-based i and exclusive j
Slice(s, i, j) == IF j <= i THEN <<>> ELSE SubSeq(s, i, j - 1)

\* first index >= i whose character is not in set cs (Len(s)+1 if none)
RECURSIVE SkipIn(_, _, _)
SkipIn(s, i, cs) ==
  IF i > Len(s) \/ s[i] \notin cs THEN i ELSE SkipIn(s, i + 1, cs)

\* first index >= i whose character is in set cs (Len(s)+1 if none)
RECURSIVE SkipTo(_, _, _)
SkipTo(s, i, cs) ==
  IF i > Len(s) \/ s[i] \in cs THEN i ELSE SkipTo(s, i + 1, cs)

\* last index <= i whose character is not in set cs (0 if none)
RECURSIVE SkipBack(_, _, _)
SkipBack(s, i, cs) ==
  IF i < 1 \/ s[i] \notin cs THEN i ELSE SkipBack(s, i - 1, cs)

\* str.strip(chars)
strip(s, cs) ==
  LET i == SkipIn(s, 1, cs)
      j == SkipBack(s, Len(s), cs)
  IN  Slice(s, i, j + 1)

\* sep.join(parts)
RECURSIVE join(_, _)
join(sep, parts) ==
  IF parts = <<>> THEN <<>>
  ELSE IF Len(parts) = 1 THEN parts[1]
  ELSE parts[1] \o sep \o join(sep, Tail(parts))

-----------------------------------------------------------------------------
(* Fractions                                                               *)

\* a/b < c/d for a, c >= 0 and b, d > 0, by whole parts and then by the
\* reciprocals of the remainders, so that no product overflows
RECURSIVE Less(_, _, _, _)
Less(a, b, c, d) ==
  IF a \div b # c \div d THEN a \div b < c \div d
  ELSE IF c % d = 0 THEN FALSE
  ELSE IF a % b = 0 THEN TRUE
  ELSE Less(d, c % d, b, a % b)

FracLess(x, y) == Less(x[1], x[2], y[1], y[2])
FracLeq(x, y) == ~FracLess(y, x)
FracEq(x, y) == ~FracLess(x, y) /\ ~FracLess(y, x)
FracMax(x, y) == IF FracLess(x, y) THEN y ELSE x

-----------------------------------------------------------------------------
(* difflib.SequenceMatcher (no junk; autojunk needs 200 characters)        *)

\* the common blocks <<i, j, size>> of a[alo:ahi] and b[blo:bhi]
CommonBlocks(a, b, alo, ahi, blo, bhi) ==
  { m \in (alo..(ahi - 1)) \X (blo..(bhi - 1)) \X (1..(ahi - alo)) :
      /\ m[1] + m[3] <= ahi
      /\ m[2] + m[3] <= bhi
      /\ \A t \in 0..(m[3] - 1) : a[m[1] + t] = b[m[2] + t] }

\* find_longest_match: the longest common block, the earliest in a, then
\* the earliest in b; <<alo, blo, 0>> when there is none
find_longest_match(a, b, alo, ahi, blo, bhi) ==
  LET bs == CommonBlocks(a, b, alo, ahi, blo, bhi)
  IN  IF bs = {} THEN <<alo, blo, 0>>
      ELSE CHOOSE m \in bs :
             \A o \in bs :
               \/ o[3] < m[3]
               \/ o[3] = m[3] /\ m[1] < o[1]
               \/ o[3] = m[3] /\ m[1] = o[1] /\ m[2] <= o[2]

\* sum of the sizes of get_matching_blocks
RECURSIVE matches(_, _, _, _, _, _)
matches(a, b, alo, ahi, blo, bhi) ==
  IF alo >= ahi \/ blo >= bhi THEN 0
  ELSE LET m == find_longest_match(a, b, alo, ahi, blo, bhi)
       IN  IF m[3] = 0 THEN 0
           ELSE m[3] + matches(a, b, alo, m[1], blo, m[2])
                     + matches(a, b, m[1] + m[3], ahi, m[2] + m[3], bhi)

\* SequenceMatcher(None, a, b).ratio() = 2.0 * matches / (len(a) + len(b))
ratio(a, b) ==
  IF Len(a) + Len(b) = 0 THEN <<1, 1>>
  ELSE <<2 * matches(a, b, 1, Len(a) + 1, 1, Len(b) + 1), Len(a) + Len(b)>>

-----------------------------------------------------------------------------
(* Artwork records: functions from field names to str values               *)

\* art.get(key, default)
get(art, key, default) == IF key \in DOMAIN art THEN art[key] ELSE default

\* the title the ranking functions match on
title_l(art) == lower(art["title"])

-----------------------------------------------------------------------------
(* demo0.py: keyword score                                                 *)

Allowed == {"a", "b", "c", "d", "x", "y", "z", " "} \cup Digits

\* re.sub(r"[^a-z0-9 ]+", " ", s): each run of other characters becomes " "
RECURSIVE sub_other(_)
sub_other(s) ==
  IF s = <<>> THEN <<>>
  ELSE IF s[1] \in Allowed THEN <<s[1]>> \o sub_other(Tail(s))
  ELSE <<" ">> \o sub_other(Slice(s, SkipTo(s, 1, Allowed), Len(s) + 1))

normalize_text(s) == strip(sub_other(lower(s)), Whitespace)

\* set(s.split())
RECURSIVE split_set(_)
split_set(s) ==
  LET i == SkipIn(s, 1, Whitespace)
      j == SkipTo(s, i, Whitespace)
  IN  IF i > Len(s) THEN {}
      ELSE {Slice(s, i, j)} \cup split_set(Slice(s, j, Len(s) + 1))

SearchKeys == <<"title", "artist", "tags", "style", "medium", "suburb", "price_range">>

\* a field value that is not a str (a float NaN of an empty cell, an int)
\* is written as a sequence that is no text
NaN == <<"NaN">>
Num == <<"int">>

\* isinstance(v, str)
isinstance_str(v) == v \notin {NaN, Num}

\* what s.lower() raises when s is not a str
AttributeError == <<"AttributeError">>

\* the values of the searchable fields the record has as a str, in key order
fields(art) ==
  LET present == SelectSeq(SearchKeys,
                           LAMBDA k : k \in DOMAIN art /\ isinstance_str(art[k]))
  IN  [i \in 1..Len(present) |-> art[present[i]]]

FracMin1(x) == IF FracLess(<<1, 1>>, x) THEN <<1, 1>> ELSE x

\* compute_keyword_score with the bonus given for a hit in any field
compute_keyword_score_any_field(q_text, art) ==
  LET q == split_set(normalize_text(q_text))
      hset == split_set(normalize_text(join(<<" ">>, fields(art))))
      overlap == q \cap hset
      n == IF Cardinality(q) > 1 THEN Cardinality(q) ELSE 1
      base == IF overlap # {}
              THEN <<4 * Cardinality(overlap) + n, 4 * n>>
              ELSE <<Cardinality(overlap), n>>
  IN  IF q = {} THEN <<0, 1>> ELSE FracMin1(base)

\* the score as a fraction; normalize_text(art.get("title", "")) raises on a
\* title that is not a str, after the early return for a query without words
compute_keyword_score(q_text, art) ==
  LET q == split_set(normalize_text(q_text))
      hset == split_set(normalize_text(join(<<" ">>, fields(art))))
      overlap == q \cap hset
      n == IF Cardinality(q) > 1 THEN Cardinality(q) ELSE 1
      title == get(art, "title", <<>>)
      title_hit == q \cap split_set(normalize_text(title))
      base == IF title_hit # {}
              THEN <<4 * Cardinality(overlap) + n, 4 * n>>
              ELSE <<Cardinality(overlap), n>>
  IN  IF q = {} THEN <<0, 1>>
      ELSE IF ~isinstance_str(title) THEN AttributeError
      ELSE FracMin1(base)

-----------------------------------------------------------------------------
(* Numbered-list extraction: re.findall over the oracle text               *)

\* One match attempt at pos of
\*   demo0.py  ^\s*\d+\.\s*([^\n]+?)\s*$   anchored, stops {NL}, trimmed
\*   ESAG      ^\s*\d+\.\s*([^\n]+)        anchored, stops {NL}
\*   demo_dup  ^\s*\d+\.\s*([^-:\n]+)      anchored, stops {NL, "-", ":"}
\*   demo.py   \d+\.\s*([^\n-]+)           stops {NL, "-"}
\* The result is <<matched, group, end>>.  After the dot \s* takes the whole
\* whitespace run; when the group cannot start behind the run the engine
\* gives whitespace back until the group can start on a blank.
match_at(text, pos, anchored, stops, trimmed) ==
  LET n == Len(text)
      d == IF anchored THEN SkipIn(text, pos, Whitespace) ELSE pos
      e == SkipIn(text, d, Digits)
      p == SkipIn(text, e + 1, Whitespace)
      eol == SkipTo(text, p, stops)
      gend == IF trimmed THEN SkipBack(text, eol - 1, Whitespace) + 1 ELSE eol
      r == SkipIn(text, gend, Whitespace)
      mend == IF ~trimmed THEN eol
              ELSE IF r > n THEN r
              ELSE SkipBack(text, r - 1, {" "})
      s == SkipBack(text, p - 1, {NL})
  IN  IF anchored /\ pos > 1 /\ text[pos - 1] # NL THEN <<FALSE, <<>>, pos>>
      ELSE IF e = d \/ e > n \/ text[e] # "." THEN <<FALSE, <<>>, pos>>
      ELSE IF p <= n /\ text[p] \notin stops
             THEN <<TRUE, Slice(text, p, gend), mend>>
      ELSE IF s >= e + 1
             THEN <<TRUE, <<text[s]>>, IF trimmed THEN n + 1 ELSE s + 1>>
      ELSE <<FALSE, <<>>, pos>>

\* re.findall: leftmost matches, each search resuming where the last ended
RECURSIVE findall(_, _, _, _, _)
findall(text, pos, anchored, stops, trimmed) ==
  IF pos > Len(text) THEN <<>>
  ELSE LET m == match_at(text, pos, anchored, stops, trimmed)
       IN  IF m[1]
           THEN <<m[2]>> \o findall(text, IF m[3] > pos THEN m[3] ELSE pos + 1,
                                    anchored, stops, trimmed)
           ELSE findall(text, pos + 1, anchored, stops, trimmed)

-----------------------------------------------------------------------------
(* Values shared by the four ranking functions                             *)

\* an Optional[str]: None, or a text
None == [none |-> TRUE, text |-> <<>>]
Str(t) == [none |-> FALSE, text |-> t]

\* the outcome of openai.chat.completions.create: the call raises, the
\* message has no content (content is None), or the content is a text
Raises == [kind |-> "raise", content |-> <<>>]
NoContent == [kind |-> "no_content", content |-> <<>>]
Text(t) == [kind |-> "text", content |-> t]

\* the list itself, as the sequence of its positions
identity(arts) == [i \in 1..Len(arts) |-> i]

\* the argument `artworks` had the function built its result in that list
input_after_in_place(arts, ordered) == [i \in 1..Len(ordered) |-> arts[ordered[i]]]

\* the argument `artworks` when a ranking function returns: the result is
\* built in a list the function creates (scored = [], demo0.py:173;
\* reordered = [], demo.py:106; ordered = [], demo_dup.py:141 and
\* demo_prototype_ESAG.py:244) and append and sort write to that list only;
\* no statement assigns to an item of artworks or to a key of a record
input_after(arts, ordered) == arts

\* [f(x) for x in s]
Map(s, f(_)) == [i \in 1..Len(s) |-> f(s[i])]

\* s.startswith(t)
startswith(s, t) == Len(t) <= Len(s) /\ SubSeq(s, 1, Len(t)) = t

\* t in s
contains(s, t) ==
  \E i \in 1..(Len(s) + 1) : i + Len(t) <= Len(s) + 1 /\ Slice(s, i, i + Len(t)) = t

\* art in [arts[i] for i in chosen]: list membership compares the dicts
in_list(arts, chosen, art) == \E k \in 1..Len(chosen) : arts[chosen[k]] = art

-----------------------------------------------------------------------------
(* demo0.py: get_ai_ranked_titles and order_artworks                       *)

AIError == <<"(AI error: ", "e", ")">>
StripChars == {" ", "-", "*", "\""}
MaxRanked == 3

\* s[:n]
Head_n(s, n) == SubSeq(s, 1, IF Len(s) < n THEN Len(s) ELSE n)

\* the titles of the numbered lines "1. Title", "2. Title" of the text
ranked_titles(text) ==
  LET found == findall(text, 1, TRUE, {NL}, TRUE)
      kept == SelectSeq(found, LAMBDA t : strip(t, Whitespace) # <<>>)
      ranked == Map(kept, LAMBDA t : strip(t, StripChars))
  IN  Head_n(ranked, MaxRanked)

get_ai_ranked_titles(q_text, arts, o) ==
  IF q_text = <<>> \/ ~api_key THEN <<None, <<>>>>
  ELSE IF o.kind # "text" THEN <<Str(AIError), <<>>>>
  ELSE LET text == strip(o.content, Whitespace)
       IN  <<Str(text), ranked_titles(text)>>

Cutoff == <<2, 5>>

\* the weights in ascending order
RankWeightAscending == <<33, 66, 100>>

\* [1.0, 0.66, 0.33] in 1/100
RankWeight == <<100, 66, 33>>

\* difflib.get_close_matches(word, possibilities, n=1, cutoff): the
\* possibility with the largest (ratio, string) among those at the cutoff
get_close_matches(word, possibilities, cutoff) ==
  LET r == [i \in 1..Len(possibilities) |-> ratio(possibilities[i], word)]
      close == {i \in 1..Len(possibilities) : FracLeq(cutoff, r[i])}
      smaller(i, j) ==
        \/ FracLess(r[i], r[j])
        \/ FracEq(r[i], r[j]) /\ StrLess(possibilities[i], possibilities[j])
  IN  IF close = {} THEN <<>>
      ELSE <<possibilities[CHOOSE i \in close : \A j \in close : ~smaller(i, j)]>>

\* ai_boost after the first k hints: lower-cased title |-> weight in 1/100
RECURSIVE ai_boost(_, _, _)
ai_boost(ai_titles, arts, k) ==
  IF k = 0 THEN [t \in {} |-> 0]
  ELSE LET before == ai_boost(ai_titles, arts, k - 1)
           best == get_close_matches(lower(ai_titles[k]), Map(arts, title_l), Cutoff)
       IN  IF best # <<>>
           THEN [t \in DOMAIN before \cup {best[1]} |->
                   IF t = best[1] THEN RankWeight[k] ELSE before[t]]
           ELSE before

\* max over the hints of the similarity of the title to the hint
RECURSIVE fuzz_of(_, _, _)
fuzz_of(art, ai_titles, k) ==
  IF k = 0 THEN <<0, 1>>
  ELSE FracMax(fuzz_of(art, ai_titles, k - 1),
               ratio(title_l(art), lower(ai_titles[k])))

\* blend with the keyword and fuzzy weights exchanged
blend_swapped(kw, fuzz, name_boost) ==
  <<500 * kw[1] * fuzz[2] + 1200 * fuzz[1] * kw[2] + 3 * name_boost * kw[2] * fuzz[2],
    2000 * kw[2] * fuzz[2]>>

\* blend with weights 0.40, 0.35 and 0.25
blend_oracle_heavy(kw, fuzz, name_boost) ==
  <<800 * kw[1] * fuzz[2] + 700 * fuzz[1] * kw[2] + 5 * name_boost * kw[2] * fuzz[2],
    2000 * kw[2] * fuzz[2]>>

\* 0.60*kw + 0.25*fuzz + 0.15*name_boost, name_boost in 1/100
blend(kw, fuzz, name_boost) ==
  <<1200 * kw[1] * fuzz[2] + 500 * fuzz[1] * kw[2] + 3 * name_boost * kw[2] * fuzz[2],
    2000 * kw[2] * fuzz[2]>>

\* final_score with the keyword term only used next to oracle hints
final_score_hinted(q_text, art, ai_titles, boost) ==
  LET kw == IF q_text # <<>> /\ ai_titles # <<>>
            THEN compute_keyword_score(q_text, art) ELSE <<0, 1>>
      fuzz == fuzz_of(art, ai_titles, Len(ai_titles))
      name_boost == IF title_l(art) \in DOMAIN boost THEN boost[title_l(art)] ELSE 0
  IN  blend(kw, fuzz, name_boost)

\* final_score with the test on the query inverted
final_score_blank_query(q_text, art, ai_titles, boost) ==
  LET kw == IF q_text = <<>> THEN compute_keyword_score(q_text, art) ELSE <<0, 1>>
      fuzz == fuzz_of(art, ai_titles, Len(ai_titles))
      name_boost == IF title_l(art) \in DOMAIN boost THEN boost[title_l(art)] ELSE 0
  IN  blend(kw, fuzz, name_boost)

final_score(q_text, art, ai_titles, boost) ==
  LET kw == IF q_text # <<>> THEN compute_keyword_score(q_text, art) ELSE <<0, 1>>
      fuzz == fuzz_of(art, ai_titles, Len(ai_titles))
      name_boost == IF title_l(art) \in DOMAIN boost THEN boost[title_l(art)] ELSE 0
  IN  blend(kw, fuzz, name_boost)

\* insert_desc with an entry put in front of the entries of equal score
insert_desc_front(sorted, x, score) ==
  LET behind == {k \in 1..Len(sorted) : FracLess(score[x], score[sorted[k]])}
      at == IF behind = {} THEN 0 ELSE CHOOSE k \in behind : \A j \in behind : j <= k
  IN  SubSeq(sorted, 1, at) \o <<x>> \o SubSeq(sorted, at + 1, Len(sorted))

\* scored.sort(key=score, reverse=True): stable, so an entry goes behind
\* every earlier entry whose score is not smaller
insert_desc(sorted, x, score) ==
  LET behind == {k \in 1..Len(sorted) : ~FracLess(score[sorted[k]], score[x])}
      at == IF behind = {} THEN 0 ELSE CHOOSE k \in behind : \A j \in behind : j <= k
  IN  SubSeq(sorted, 1, at) \o <<x>> \o SubSeq(sorted, at + 1, Len(sorted))

\* sort_desc keeping one entry of each score, as a dict keyed by score would
RECURSIVE sort_desc_by_score(_, _)
sort_desc_by_score(score, k) ==
  IF k = 0 THEN <<>>
  ELSE LET before == sort_desc_by_score(score, k - 1)
       IN  IF \E j \in 1..Len(before) : FracEq(score[before[j]], score[k])
           THEN before
           ELSE insert_desc(before, k, score)

RECURSIVE sort_desc(_, _)
sort_desc(score, k) ==
  IF k = 0 THEN <<>> ELSE insert_desc(sort_desc(score, k - 1), k, score)

\* top3 taken from the list as it came in
top3_of_input(ordered) ==
  {i \in 1..Len(ordered) : i <= 3}

\* the first min(3, len(ordered)) entries
top3(ordered) == {ordered[i] : i \in 1..(IF Len(ordered) < 3 THEN Len(ordered) ELSE 3)}

order_artworks(q_text, arts, o) ==
  LET ai == get_ai_ranked_titles(q_text, arts, o)
      ai_titles == ai[2]
      boost == ai_boost(ai_titles, arts, Len(ai_titles))
      score == [i \in 1..Len(arts) |-> final_score(q_text, arts[i], ai_titles, boost)]
      ordered == sort_desc(score, Len(arts))
  IN  [explanation |-> ai[1], ordered |-> ordered, top3_ids |-> top3(ordered)]

-----------------------------------------------------------------------------
(* demo.py: recommend_artworks_with_openai                                 *)

\* index of the first artwork whose title starts with the hint, 0 if none
first_prefixed(arts, hint) ==
  LET hits == {i \in 1..Len(arts) : startswith(title_l(arts[i]), hint)}
  IN  IF hits = {} THEN 0 ELSE CHOOSE i \in hits : \A j \in hits : i <= j

\* the first loop: one append for each of the first k hints that has a hit
RECURSIVE demo_matched(_, _, _)
demo_matched(arts, titles_lower, k) ==
  IF k = 0 THEN <<>>
  ELSE LET before == demo_matched(arts, titles_lower, k - 1)
           hit == first_prefixed(arts, titles_lower[k])
       IN  IF hit # 0 THEN Append(before, hit) ELSE before

\* the second loop over the first k artworks: append what is not in the list
RECURSIVE add_remaining(_, _, _)
add_remaining(arts, chosen, k) ==
  IF k = 0 THEN chosen
  ELSE LET before == add_remaining(arts, chosen, k - 1)
       IN  IF ~in_list(arts, before, arts[k]) THEN Append(before, k) ELSE before

demo_recommend(q_text, arts, o) ==
  IF q_text = <<>> THEN [explanation |-> None, ordered |-> identity(arts)]
  ELSE IF o.kind # "text" THEN [explanation |-> None, ordered |-> identity(arts)]
  ELSE LET text == o.content
           matched_titles == findall(text, 1, FALSE, {NL, "-"}, FALSE)
           titles_lower == Map(matched_titles, LAMBDA t : lower(strip(t, Whitespace)))
           reordered == demo_matched(arts, titles_lower, Len(titles_lower))
       IN  [explanation |-> Str(text),
            ordered |-> add_remaining(arts, reordered, Len(arts))]

-----------------------------------------------------------------------------
(* demo_dup.py: recommend_artworks_with_openai                             *)

\* the first loop: for each hint the first artwork that matches it by prefix
\* or substring and is not in the list yet
RECURSIVE dup_matched(_, _, _)
dup_matched(arts, matched_titles, k) ==
  IF k = 0 THEN <<>>
  ELSE LET before == dup_matched(arts, matched_titles, k - 1)
           t == lower(matched_titles[k])
           hits == {i \in 1..Len(arts) :
                      /\ \/ startswith(title_l(arts[i]), t)
                         \/ contains(title_l(arts[i]), t)
                      /\ ~in_list(arts, before, arts[i])}
       IN  IF hits = {} THEN before
           ELSE Append(before, CHOOSE i \in hits : \A j \in hits : i <= j)

\* dup_recommend reporting a failure as the explanation
dup_recommend_reporting(q_text, arts, o) ==
  IF q_text = <<>> THEN [explanation |-> None, ordered |-> identity(arts)]
  ELSE IF o.kind # "text"
    THEN [explanation |-> Str(<<"OpenAI error: ", "e">>), ordered |-> identity(arts)]
  ELSE LET text == strip(o.content, Whitespace)
           found == findall(text, 1, TRUE, {NL, "-", ":"}, FALSE)
           stripped == Map(found, LAMBDA t : strip(t, Whitespace))
           matched_titles == SelectSeq(stripped, LAMBDA t : t # <<>>)
           ordered == dup_matched(arts, matched_titles, Len(matched_titles))
       IN  [explanation |-> Str(text),
            ordered |-> add_remaining(arts, ordered, Len(arts))]

dup_recommend(q_text, arts, o) ==
  IF q_text = <<>> THEN [explanation |-> None, ordered |-> identity(arts)]
  ELSE IF o.kind # "text" THEN [explanation |-> None, ordered |-> identity(arts)]
  ELSE LET text == strip(o.content, Whitespace)
           found == findall(text, 1, TRUE, {NL, "-", ":"}, FALSE)
           stripped == Map(found, LAMBDA t : strip(t, Whitespace))
           matched_titles == SelectSeq(stripped, LAMBDA t : t # <<>>)
           ordered == dup_matched(arts, matched_titles, Len(matched_titles))
       IN  [explanation |-> Str(text),
            ordered |-> add_remaining(arts, ordered, Len(arts))]

-----------------------------------------------------------------------------
(* demo_prototype_ESAG.py: recommend_artworks_with_openai                  *)

Separators == {EN, EM, ":", "-"}

\* an acceptance threshold of 0.30
ThresholdLow == <<3, 10>>

\* 0.35
Threshold == <<7, 20>>
MaxTitles == 10

\* re.split(r"[–—:-]", ln, maxsplit=1)[0].strip()
title_part(ln) == strip(Slice(ln, 1, SkipTo(ln, 1, Separators)), Whitespace)

\* the lower-cased title parts of the numbered lines of the text
esag_titles(text) ==
  LET lines == findall(text, 1, TRUE, {NL}, FALSE)
      parts == Map(lines, title_part)
  IN  Map(SelectSeq(parts, LAMBDA t : t # <<>>), lower)

\* best_match with a later artwork of equal score replacing the best
RECURSIVE best_match_last(_, _, _)
best_match_last(arts, ai_title, k) ==
  IF k = 0 THEN <<0, <<0, 1>>>>
  ELSE LET before == best_match_last(arts, ai_title, k - 1)
           score == ratio(ai_title, lower(get(arts[k], "title", <<>>)))
       IN  IF FracLeq(before[2], score) /\ FracLess(<<0, 1>>, score)
           THEN <<k, score>> ELSE before

\* the inner loop over the first k artworks: <<best_idx, best_score>>, a later
\* artwork replaces the best only with a strictly larger score; 0 is None
RECURSIVE best_match(_, _, _)
best_match(arts, ai_title, k) ==
  IF k = 0 THEN <<0, <<0, 1>>>>
  ELSE LET before == best_match(arts, ai_title, k - 1)
           score == ratio(ai_title, lower(get(arts[k], "title", <<>>)))
       IN  IF FracLess(before[2], score) THEN <<k, score>> ELSE before

\* esag_matched without the test that the best index is unused
RECURSIVE esag_matched_reusing(_, _, _)
esag_matched_reusing(arts, titles, k) ==
  IF k = 0 THEN <<>>
  ELSE LET before == esag_matched_reusing(arts, titles, k - 1)
           best == best_match(arts, titles[k], Len(arts))
       IN  IF best[1] # 0 /\ FracLeq(Threshold, best[2])
           THEN Append(before, best[1])
           ELSE before

\* the outer loop over the first k hints: the ordered list; used_idx is the
\* set of its entries
RECURSIVE esag_matched(_, _, _)
esag_matched(arts, titles, k) ==
  IF k = 0 THEN <<>>
  ELSE LET before == esag_matched(arts, titles, k - 1)
           used_idx == {before[i] : i \in 1..Len(before)}
           best == best_match(arts, titles[k], Len(arts))
       IN  IF best[1] # 0 /\ best[1] \notin used_idx /\ FracLeq(Threshold, best[2])
           THEN Append(before, best[1])
           ELSE before

\* the last loop without the test on used_idx
unused_after_unchecked(arts, ordered) == ordered \o identity(arts)

\* the last loop: every index that is not used, in catalogue order
unused_after(arts, ordered) ==
  LET used_idx == {ordered[i] : i \in 1..Len(ordered)}
  IN  ordered \o SelectSeq(identity(arts), LAMBDA i : i \notin used_idx)

esag_recommend(q_text, arts, o) ==
  IF q_text = <<>> THEN [explanation |-> None, ordered |-> identity(arts)]
  ELSE IF o.kind # "text" THEN [explanation |-> None, ordered |-> identity(arts)]
  ELSE LET text == strip(o.content, Whitespace)
           titles == esag_titles(text)
           first10 == Head_n(titles, MaxTitles)
           ordered == esag_matched(arts, first10, Len(first10))
       IN  IF titles = <<>>
           THEN [explanation |-> Str(text), ordered |-> identity(arts)]
           ELSE [explanation |-> Str(text), ordered |-> unused_after(arts, ordered)]

-----------------------------------------------------------------------------
(* demo_prototype_ESAG.py: session state, Home tab and Refresh button      *)

\* st.session_state[k] = v
put(ss, k, v) == [x \in DOMAIN ss \cup {k} |-> IF x = k THEN v ELSE ss[x]]

\* the branch for a second click on the Home tab
home_clear(ss) ==
  put(put(put(put(put(ss, "q", <<>>), "artist_sel", "All"), "suburb_sel", "All"),
          "price_sel", "All"), "just_clicked_home", FALSE)

\* home_tab_state with every run on the Home tab marked as a click
home_tab_state_marking(ss) ==
  LET s1 == IF "just_clicked_home" \notin DOMAIN ss
            THEN put(ss, "just_clicked_home", FALSE) ELSE ss
  IN  IF get(s1, "active_tab", "None") # "home"
      THEN <<put(put(s1, "active_tab", "home"), "just_clicked_home", FALSE), FALSE>>
      ELSE IF s1["just_clicked_home"] THEN <<home_clear(s1), TRUE>>
      ELSE <<put(s1, "just_clicked_home", TRUE), FALSE>>

\* the Home tab state kept at the top of the script: <<session state,
\* whether st.rerun() was called>>
home_tab_state(ss) ==
  LET s1 == IF "just_clicked_home" \notin DOMAIN ss
            THEN put(ss, "just_clicked_home", FALSE) ELSE ss
  IN  IF get(s1, "active_tab", "None") # "home"
      THEN <<put(put(s1, "active_tab", "home"), "just_clicked_home", FALSE), FALSE>>
      ELSE IF s1["just_clicked_home"] THEN <<home_clear(s1), TRUE>>
      ELSE <<s1, FALSE>>

\* the Refresh handler of the earlier version: a rerun and nothing cleared
refresh_handler_rerun_only(ss) == put(ss, "just_clicked_home", FALSE)

\* the body of `if st.sidebar.button("Refresh")` before st.rerun()
refresh_handler(ss) ==
  put(put(put(put(put(ss, "q", <<>>), "artist_sel", "All"), "suburb_sel", "All"),
          "price_sel", "All"), "just_clicked_home", FALSE)

\* the options of the widgets bound to the session by key
WidgetKeys == {"q", "artist_sel", "suburb_sel", "price_sel"}
Options(k) ==
  CASE k = "q" -> {<<>>, <<"a", "b">>, <<"z">>}
    [] k = "artist_sel" -> {"All", "x", "y"}
    [] k = "suburb_sel" -> {"All", "s"}
    [] k = "price_sel" -> {"All", "100 - 500"}
Default(k) == IF k = "q" THEN <<>> ELSE "All"

\* text_input and selectbox with a key: a key the session lacks gets the
\* widget's default
widgets(ss) == [k \in DOMAIN ss \cup WidgetKeys |-> IF k \in DOMAIN ss THEN ss[k] ELSE Default(k)]

\* what the Home tab draws: the search it runs and the filters it applies
home_tab(ss) ==
  [query |-> ss["q"],
   recommended |-> ss["q"] # <<>> /\ api_key,
   filters |-> {k \in {"artist_sel", "suburb_sel", "price_sel"} : ss[k] # "All"}]

\* one run of the script, with or without the click on Refresh
script(ss, clicked) ==
  LET h == home_tab_state(ss)
  IN  IF h[2] THEN [session_state |-> h[1], rerun |-> TRUE]
      ELSE IF clicked THEN [session_state |-> refresh_handler(h[1]), rerun |-> TRUE]
      ELSE [session_state |-> widgets(h[1]), rerun |-> FALSE]

-----------------------------------------------------------------------------
(* Inputs                                                                  *)

MaxArt == 3
MaxLines == 2

\* catalogue records: a capital in a title, a title that is a prefix of
\* another, fields other than the title that hold a query word
Records ==
  { [title |-> <<"A", "b">>, artist |-> <<"x">>],
    [title |-> <<"a", "b", "c">>],
    [title |-> <<"c", "d">>, tags |-> <<"a", "b">>] }

\* catalogues of more than three records
LongCatalogues ==
  LET ab == [title |-> <<"A", "b">>, artist |-> <<"x">>]
      abc == [title |-> <<"a", "b", "c">>]
      cd == [title |-> <<"c", "d">>, tags |-> <<"a", "b">>]
  IN  {<<abc, abc, cd, ab, abc>>, <<cd, ab, abc, cd, ab>>}

\* the filtered catalogue handed to the ranking function
Catalogues == UNION {[1..n -> Records] : n \in 0..MaxArt} \cup LongCatalogues

\* no search, a search with two words, a search that matches no record
Queries == {<<>>, <<"a", "b", " ", "x">>, <<"z">>}

\* lines of an oracle reply: a title as written, a title before a
\* separator, a hint that resembles no title closely, a number alone
Lines ==
  { <<"1", ".", " ", "A", "b">>,
    <<"2", ".", " ", "c", "d", " ", "-">>,
    <<"3", ".", " ", "d", "x", "x", "x">>,
    <<"2", ".">> }

\* a reply of more lines than the page reads: ten hints that resemble no
\* title closely, then a title
LongReplies ==
  {join(<<NL>>, [k \in 1..MaxTitles |-> <<"3", ".", " ", "d", "x", "x", "x">>]
                  \o << <<"1", ".", " ", "A", "b">> >>)}

Replies ==
  {join(<<NL>>, ls) : ls \in UNION {[1..k -> Lines] : k \in 0..MaxLines}} \cup LongReplies

\* replies that name each title as written, and searches that match one
\* record in full and another not at all
HintedLines ==
  { <<"1", ".", " ", "a", "b", "c">>,
    <<"2", ".", " ", "A", "b">>,
    <<"3", ".", " ", "c", "d">> }

HintedReplies ==
  {join(<<NL>>, ls) : ls \in UNION {[1..k -> HintedLines] : k \in 1..MaxLines}}

HintedQueries == {<<"a", "b", " ", "x">>, <<"a", "b", "c">>}

\* before the page has run
NotCalled == [kind |-> "not_called", content |-> <<>>]

\* what the service does when it is called; without a key the call raises
Outcomes == {Raises, NoContent} \cup {Text(t) : t \in Replies}
Answers == IF api_key THEN Outcomes ELSE {Raises}

NoResult == [explanation |-> None, ordered |-> <<>>]

\* records for the scorer alone: a title of two words, a title in capitals
\* with punctuation, the query words in other fields, in a field that is not
\* searched ("tag"), in no field; a record without a title
ScoreRecords ==
  { [title |-> <<"a", "b", " ", "c", "d">>],
    [title |-> <<"A", "b", "-", "C", "d">>, artist |-> <<"x">>],
    [title |-> <<"a", "b">>, tags |-> <<"x", " ", "y">>, suburb |-> <<"z">>],
    [title |-> <<"a", "b", "c">>, style |-> <<"a", "b">>, medium |-> <<"x">>],
    [title |-> <<"c", "d">>, tag |-> <<"a", "b">>],
    [title |-> <<"c", "d">>, price_range |-> <<"1", "0", "0", " ", "-", " ", "5", "0", "0">>],
    [title |-> <<>>, artist |-> <<"a", "b">>],
    [artist |-> <<"a", "b">>, tags |-> <<"x">>] }

\* records with a value that is not a str: in a field other than the title,
\* in the title, in both; a record with no searchable field at all
MixedRecords ==
  { [title |-> <<"a", "b">>, tags |-> NaN],
    [title |-> <<"a", "b", " ", "c", "d">>, artist |-> Num, suburb |-> <<"z">>],
    [title |-> <<"c", "d">>, tags |-> <<"a", "b">>, price_range |-> Num],
    [title |-> NaN, artist |-> <<"a", "b">>],
    [title |-> Num, tags |-> <<"x", " ", "y">>],
    [title |-> NaN, tags |-> NaN],
    [artist |-> NaN, style |-> <<"a", "b">>],
    [link |-> <<"a", "b">>] }

\* queries for the scorer: empty, punctuation only, one to three words,
\* capitals and punctuation, a word twice, a number
ScoreQueries ==
  { <<>>,
    <<".", " ", "-">>,
    <<"a", "b">>,
    <<"a", "b", " ", "x">>,
    <<"A", "B", ".", "X", " ", " ", "z">>,
    <<"a", "b", " ", "a", "b", " ", "y">>,
    <<"c", "d", " ", "y", " ", "z">>,
    <<"5", "0", "0">> }

\* lines of a reply for the parser alone: a numbered title, a number with
\* nothing behind it, a line without a number, a numbered line that starts
\* with a separator, an indented numbered line with a colon
ParseLines ==
  { <<"1", ".", " ", "A", "b">>,
    <<"2", ".">>,
    <<"c", "d">>,
    <<"3", ".", " ", "-", " ", "x">>,
    <<" ", "2", ".", "c", "d", ":", "x">> }

ParseTexts ==
  {join(<<NL>>, ls) : ls \in UNION {[1..k -> ParseLines] : k \in 0..(MaxLines + 1)}}

-----------------------------------------------------------------------------
(* The four pages: one run of the ranking function on the inputs.  oracle   *)
(* is what the service does if the function calls it.                      *)

\* a new browser session: nothing stored, nothing drawn
NewSession == [k \in {} |-> FALSE]
NoGallery == [query |-> <<>>, recommended |-> FALSE, filters |-> {}]

InitSession ==
  /\ session_state = NewSession
  /\ run = "pending"
  /\ event = "none"
  /\ gallery = NoGallery

Init ==
  /\ artworks \in Catalogues
  /\ query \in Queries
  /\ api_key \in BOOLEAN
  /\ oracle = NotCalled
  /\ pc = "input"
  /\ result = NoResult
  /\ InitSession

\* demo0.py: order_artworks when the service does one of the outcomes
OrderArtworksOn(outcomes) ==
  /\ pc = "input"
  /\ \E o \in outcomes :
       /\ oracle' = o
       /\ result' = order_artworks(query, artworks, o)
       /\ artworks' = input_after(artworks, result'.ordered)
  /\ pc' = "demo0"
  /\ UNCHANGED <<query, api_key>>
  /\ UNCHANGED ui

OrderArtworks == OrderArtworksOn(Answers)

\* demo0.py with a key, a search and a reply that names titles
InitHinted ==
  /\ artworks \in Catalogues
  /\ query \in HintedQueries
  /\ api_key = TRUE
  /\ oracle = NotCalled
  /\ pc = "input"
  /\ result = NoResult
  /\ InitSession

OrderArtworksHinted == OrderArtworksOn({Text(t) : t \in HintedReplies})

\* demo.py
DemoRecommend ==
  /\ pc = "input"
  /\ \E o \in Answers :
       /\ oracle' = o
       /\ result' = demo_recommend(query, artworks, o)
       /\ artworks' = input_after(artworks, result'.ordered)
  /\ pc' = "demo"
  /\ UNCHANGED <<query, api_key>>
  /\ UNCHANGED ui

\* demo_dup.py
DupRecommend ==
  /\ pc = "input"
  /\ \E o \in Answers :
       /\ oracle' = o
       /\ result' = dup_recommend(query, artworks, o)
       /\ artworks' = input_after(artworks, result'.ordered)
  /\ pc' = "demo_dup"
  /\ UNCHANGED <<query, api_key>>
  /\ UNCHANGED ui

\* demo_prototype_ESAG.py
EsagRecommend ==
  /\ pc = "input"
  /\ \E o \in Answers :
       /\ oracle' = o
       /\ result' = esag_recommend(query, artworks, o)
       /\ artworks' = input_after(artworks, result'.ordered)
  /\ pc' = "esag"
  /\ UNCHANGED <<query, api_key>>
  /\ UNCHANGED ui

\* demo0.py: one call of compute_keyword_score on a record
InitScore ==
  /\ artworks \in {<<r>> : r \in ScoreRecords}
  /\ query \in ScoreQueries
  /\ api_key = FALSE
  /\ oracle = NotCalled
  /\ pc = "input"
  /\ result = NoResult
  /\ InitSession

\* compute_keyword_score on a record with values that are not a str
InitScoreMixed ==
  /\ artworks \in {<<r>> : r \in MixedRecords}
  /\ query \in ScoreQueries
  /\ api_key = FALSE
  /\ oracle = NotCalled
  /\ pc = "input"
  /\ result = NoResult
  /\ InitSession

KeywordScore ==
  /\ pc = "input"
  /\ Len(artworks) = 1
  /\ result' = [explanation |-> None, ordered |-> <<>>,
                score |-> compute_keyword_score(query, artworks[1])]
  /\ pc' = "score"
  /\ UNCHANGED <<artworks, query, api_key, oracle>>
  /\ UNCHANGED ui

\* demo_prototype_ESAG.py: the hints read from one reply of the service
InitParse ==
  /\ artworks = <<>>
  /\ query = <<"z">>
  /\ api_key = TRUE
  /\ oracle \in {Text(t) : t \in ParseTexts}
  /\ pc = "input"
  /\ result = NoResult
  /\ InitSession

ParseHints ==
  /\ pc = "input"
  /\ oracle.kind = "text"
  /\ LET text == strip(oracle.content, Whitespace)
     IN  result' = [explanation |-> Str(text), ordered |-> <<>>,
                    ranked_titles |-> esag_titles(text)]
  /\ pc' = "hints"
  /\ UNCHANGED <<artworks, query, api_key, oracle>>
  /\ UNCHANGED ui

\* demo_prototype_ESAG.py: the page in a browser session
InitPage ==
  /\ artworks = <<>>
  /\ query = <<>>
  /\ api_key \in BOOLEAN
  /\ oracle = NotCalled
  /\ pc = "page"
  /\ result = NoResult
  /\ InitSession

\* the outcome r of a script run, started by event e
Ran(r, e) ==
  /\ session_state' = r.session_state
  /\ run' = IF r.rerun THEN "pending" ELSE "idle"
  /\ event' = e
  /\ gallery' = IF r.rerun THEN gallery ELSE home_tab(r.session_state)
  /\ UNCHANGED <<artworks, query, api_key, oracle, pc, result>>

\* the first run of a session, and the run st.rerun() starts at once
Rerun ==
  /\ pc = "page"
  /\ run = "pending"
  /\ Ran(script(session_state, FALSE), IF event = "none" THEN "load" ELSE "rerun")

\* the user changes the search text or a filter: the widget's value is
\* stored under its key and the script runs
WidgetChanged ==
  /\ pc = "page"
  /\ run = "idle"
  /\ \E k \in WidgetKeys : \E v \in Options(k) :
       /\ v # session_state[k]
       /\ Ran(script(put(session_state, k, v), FALSE), "edit")

\* the user clicks Refresh: the script runs with the button True
RefreshClicked ==
  /\ pc = "page"
  /\ run = "idle"
  /\ Ran(script(session_state, TRUE), "refresh")

Next == OrderArtworks \/ DemoRecommend \/ DupRecommend \/ EsagRecommend

Spec == Init /\ [][Next]_vars

\* each page on its own
SpecDemo0 == Init /\ [][OrderArtworks]_vars
SpecDemo == Init /\ [][DemoRecommend]_vars
SpecDup == Init /\ [][DupRecommend]_vars
SpecEsag == Init /\ [][EsagRecommend]_vars

\* the demo_prototype_ESAG.py page in a session
SpecPage == InitPage /\ [][Rerun \/ WidgetChanged \/ RefreshClicked]_vars

\* the scorer on its own inputs
SpecScore == InitScore /\ [][KeywordScore]_vars

\* demo0.py on replies that name titles
SpecHinted == InitHinted /\ [][OrderArtworksHinted]_vars

\* the scorer on records with values that are not a str
SpecScoreMixed == InitScoreMixed /\ [][KeywordScore]_vars

\* the hint parser of demo_prototype_ESAG.py on its own inputs
SpecParse == InitParse /\ [][ParseHints]_vars

-----------------------------------------------------------------------------
(* Properties                                                              *)

\* ordered holds every position of arts exactly once
PermutationOf(ordered, arts) ==
  /\ Len(ordered) = Len(arts)
  /\ \A i \in 1..Len(arts) : Cardinality({k \in 1..Len(ordered) : ordered[k] = i}) = 1

\* the first n values of f, each worked out once
RECURSIVE Values(_, _)
Values(f, n) == IF n = 0 THEN <<>> ELSE Append(Values(f, n - 1), f[n])

\* ordered is the stable descending sort of the positions of key
StableDescBy(ordered, key) ==
  LET val == Values(key, Len(ordered))
  IN  /\ Len(ordered) = Len(key)
      /\ \A i \in 1..Len(key) : \E k \in 1..Len(ordered) : ordered[k] = i
      /\ \A p, q \in 1..Len(ordered) :
           p < q => \/ FracLess(val[ordered[q]], val[ordered[p]])
                    \/ FracEq(val[ordered[q]], val[ordered[p]]) /\ ordered[p] < ordered[q]

\* the hints order_artworks worked with in this run
Hints == get_ai_ranked_titles(query, artworks, oracle)[2]

\* the hints the reply holds, whether or not the service was asked
ReplyHints ==
  IF oracle.kind = "text" THEN ranked_titles(strip(oracle.content, Whitespace)) ELSE <<>>

KeywordScores == [i \in 1..Len(artworks) |-> compute_keyword_score(query, artworks[i])]

\* C1: the list order_artworks returns holds every record of the catalogue
\* exactly once, for every query and every outcome of the oracle call.
C1_OrderIsPermutation == pc = "demo0" => PermutationOf(result.ordered, artworks)

C1_Witness ==
  /\ pc = "demo0"
  /\ Len(Hints) = 2
  /\ Len(artworks) = 3
  /\ artworks[1] = artworks[3]
  /\ result.ordered = <<2, 1, 3>>

\* C2: for a non-empty query and a reply text, the list the ESAG page's
\* recommend_artworks_with_openai returns holds every catalogue index
\* exactly once.
C2_EsagIsPermutation ==
  (pc = "esag" /\ query # <<>> /\ oracle.kind = "text")
    => PermutationOf(result.ordered, artworks)

\* two hints whose best match is the same artwork, and a reordered list
C2_Witness ==
  /\ pc = "esag"
  /\ query # <<>>
  /\ oracle.kind = "text"
  /\ LET titles == esag_titles(strip(oracle.content, Whitespace))
     IN  /\ Len(titles) = 2
         /\ best_match(artworks, titles[1], Len(artworks))[1]
              = best_match(artworks, titles[2], Len(artworks))[1]
         /\ best_match(artworks, titles[1], Len(artworks))[1] > 1
  /\ result.ordered # identity(artworks)

\* C3: the lists the prefix and substring variants (demo.py, demo_dup.py)
\* return are permutations of the catalogue, no record dropped and none
\* twice, also when the reply names a title twice.
C3_PrefixIsPermutation ==
  pc \in {"demo", "demo_dup"} => PermutationOf(result.ordered, artworks)

\* C4: with the empty query each of the four ranking functions returns the
\* artworks in the input order.
C4_EmptyQueryIdentity ==
  (pc # "input" /\ query = <<>>) => result.ordered = identity(artworks)

C4_Witness ==
  /\ pc = "demo0"
  /\ query = <<>>
  /\ api_key
  /\ ReplyHints # <<>>
  /\ Len(artworks) = 3
  /\ artworks[1] # artworks[2]
  /\ result.ordered = <<1, 2, 3>>

\* C5: when the oracle call raises, no key is configured or the reply holds
\* no hint, order_artworks returns the stable descending sort of the
\* catalogue by compute_keyword_score alone.
C5_FallbackIsLexical ==
  (pc = "demo0" /\ (oracle.kind # "text" \/ ~api_key \/ ReplyHints = <<>>))
    => StableDescBy(result.ordered, KeywordScores)

C5_Witness ==
  /\ pc = "demo0"
  /\ api_key
  /\ oracle = Raises
  /\ result.ordered = <<3, 1, 2>>

\* C6: when the oracle call raises, the explanation order_artworks returns
\* is None.
C6_FailureExplanationAbsent ==
  (pc = "demo0" /\ query # <<>> /\ api_key /\ oracle.kind = "raise")
    => result.explanation = None

\* what the page returns for the empty query on the same catalogue
EmptyQueryResult ==
  CASE pc = "demo" -> demo_recommend(<<>>, artworks, oracle)
    [] pc = "demo_dup" -> dup_recommend(<<>>, artworks, oracle)
    [] pc = "esag" -> esag_recommend(<<>>, artworks, oracle)
    [] OTHER -> NoResult

\* C7: in the three recommend_artworks_with_openai variants, when the oracle
\* call raises or the reply cannot be parsed, the function returns
\* (None, artworks), the value it returns for the empty query.
C7_FailureReturnsInput ==
  (pc \in {"demo", "demo_dup", "esag"} /\ query # <<>> /\ oracle.kind # "text")
    => /\ result = [explanation |-> None, ordered |-> identity(artworks)]
       /\ result = EmptyQueryResult

C7_Witness ==
  /\ pc = "demo_dup"
  /\ query # <<>>
  /\ api_key
  /\ oracle = NoContent
  /\ Len(artworks) = 3
  /\ result.explanation = None

\* every hint is below the cutoff against every title
AllHintsBelowCutoff ==
  \A k \in 1..Len(Hints) : \A i \in 1..Len(artworks) :
    FracLess(ratio(title_l(artworks[i]), lower(Hints[k])), Cutoff)

\* C8: a hint whose similarity to every title is below the cutoff 0.4 counts
\* in no term of any score, so with only such hints order_artworks returns
\* the order by keyword score alone.
C8_BelowCutoffIgnored ==
  (pc = "demo0" /\ Hints # <<>> /\ AllHintsBelowCutoff)
    => StableDescBy(result.ordered, KeywordScores)

\* the position of artwork i in the returned list
Pos(i) == CHOOSE p \in 1..Len(result.ordered) : result.ordered[p] = i

\* the reply holds exactly two hints, each the title of a record, and the
\* two titles differ
RepliesTwoTitles ==
  /\ Len(ReplyHints) = 2
  /\ lower(ReplyHints[1]) # lower(ReplyHints[2])
  /\ \E i, j \in 1..Len(artworks) :
       /\ title_l(artworks[i]) = lower(ReplyHints[1])
       /\ title_l(artworks[j]) = lower(ReplyHints[2])

\* the rank-1 title before the rank-2 title before every other title
RankedTitlesFirst ==
  \A i, j \in 1..Len(artworks) :
    /\ (/\ title_l(artworks[i]) = lower(ReplyHints[1])
        /\ title_l(artworks[j]) = lower(ReplyHints[2])) => Pos(i) < Pos(j)
    /\ (/\ title_l(artworks[i]) \in {lower(ReplyHints[1]), lower(ReplyHints[2])}
        /\ title_l(artworks[j]) \notin {lower(ReplyHints[1]), lower(ReplyHints[2])})
         => Pos(i) < Pos(j)

\* C9 as stated: with the empty query and a reply that lists one catalogue
\* title as rank 1 and another as rank 2, order_artworks places the rank-1
\* title before the rank-2 title and both before every other title.
C9_EmptyQueryFollowsOracle ==
  (pc = "demo0" /\ query = <<>> /\ api_key /\ RepliesTwoTitles) => RankedTitlesFirst

\* C9 amended: the same order holds for a non-empty query that gives every
\* artwork the keyword score 0, with a key configured and a reply whose
\* numbered list is exactly the two titles.
C9_ZeroLexicalFollowsOracle ==
  (/\ pc = "demo0"
   /\ query # <<>>
   /\ api_key
   /\ \A i \in 1..Len(artworks) : FracEq(KeywordScores[i], <<0, 1>>)
   /\ RepliesTwoTitles) => RankedTitlesFirst

C9_Witness ==
  /\ pc = "demo0"
  /\ query = <<"z">>
  /\ api_key
  /\ RepliesTwoTitles
  /\ Len(artworks) = 3
  /\ result.ordered = <<3, 2, 1>>

\* the scores of the artworks with the weights the claim states
WeightedScores ==
  LET hints == Hints
      boost == ai_boost(hints, artworks, Len(hints))
      nb(i) == IF title_l(artworks[i]) \in DOMAIN boost THEN boost[title_l(artworks[i])] ELSE 0
      weighted(kw, fuzz, b) ==
        <<(60 * kw[1] * fuzz[2] + 25 * fuzz[1] * kw[2]) * 100 + 15 * b * kw[2] * fuzz[2],
          10000 * kw[2] * fuzz[2]>>
  IN  [i \in 1..Len(artworks) |->
         weighted(compute_keyword_score(query, artworks[i]),
                  fuzz_of(artworks[i], hints, Len(hints)), nb(i))]

\* C10: the list order_artworks returns is sorted by non-increasing
\* 0.60*keyword + 0.25*fuzzy + 0.15*rank_bonus, and artworks of equal score
\* keep their catalogue order.
C10_SortedByFinalScore ==
  pc = "demo0" =>
    StableDescBy(result.ordered, WeightedScores)

\* a tie that keeps the catalogue order behind an artwork that moved up
C10_Witness ==
  /\ pc = "demo0"
  /\ Hints # <<>>
  /\ Len(artworks) = 3
  /\ result.ordered = <<3, 1, 2>>
  /\ FracEq(WeightedScores[1], WeightedScores[2])
  /\ FracLess(<<0, 1>>, WeightedScores[1])

\* the words of s: the maximal runs of letters and digits of s in lower case
TokenSet(s) ==
  LET l == lower(s)
      word(i) == i \in 1..Len(l) /\ l[i] \in Allowed \ {" "}
  IN  { Slice(l, i, j + 1) : <<i, j>> \in
          { w \in (1..Len(l)) \X (1..Len(l)) :
              /\ w[1] <= w[2]
              /\ \A k \in w[1]..w[2] : word(k)
              /\ ~word(w[1] - 1)
              /\ ~word(w[2] + 1) } }

\* the words of the searchable fields of a record, and of its title
FieldTokens(art) ==
  UNION {TokenSet(art[k]) : k \in {SearchKeys[i] : i \in 1..Len(SearchKeys)} \cap DOMAIN art}
TitleTokens(art) == IF "title" \in DOMAIN art THEN TokenSet(art["title"]) ELSE {}

\* min(1, |Q \cap F| / max(1, |Q|) + b), b = 1/4 if Q \cap T # {} else 0
StatedScore(Q, F, T) ==
  LET n == IF Cardinality(Q) > 1 THEN Cardinality(Q) ELSE 1
      b == IF Q \cap T # {} THEN 1 ELSE 0
      sum == <<4 * Cardinality(Q \cap F) + b * n, 4 * n>>
  IN  IF FracLess(<<1, 1>>, sum) THEN <<1, 1>> ELSE sum

\* C11: compute_keyword_score(query, art) is min(1, |Q \cap F| / max(1, |Q|)
\* + b) for the word sets Q of the query, F of the searchable fields and T of
\* the title, b = 0.25 if Q and T share a word and 0 otherwise; it lies in
\* [0, 1] and is 0 when the query has no word.
C11_KeywordScoreFormula ==
  pc = "score" =>
    LET Q == TokenSet(query)
        art == artworks[1]
    IN  /\ FracEq(result.score, StatedScore(Q, FieldTokens(art), TitleTokens(art)))
        /\ FracLeq(<<0, 1>>, result.score)
        /\ FracLeq(result.score, <<1, 1>>)
        /\ Q = {} => FracEq(result.score, <<0, 1>>)

\* a hit outside the title only: two of three query words, no bonus
C11_Witness ==
  /\ pc = "score"
  /\ Cardinality(TokenSet(query)) = 3
  /\ TokenSet(query) \cap TitleTokens(artworks[1]) = {}
  /\ FracEq(result.score, <<2, 3>>)

\* C12: with a non-empty query and no hint from the oracle, order_artworks
\* places every artwork whose title holds a query word before every artwork
\* none of whose searchable fields holds a query word.
C12_TitleHitBeforeNoHit ==
  (pc = "demo0" /\ query # <<>> /\ Hints = <<>>)
    => \A i, j \in 1..Len(artworks) :
         (/\ TokenSet(query) \cap TitleTokens(artworks[i]) # {}
          /\ TokenSet(query) \cap FieldTokens(artworks[j]) = {})
           => Pos(i) < Pos(j)

\* a reply without a numbered title; the last artwork has the query word in
\* its title and goes before the first, which has it in no field
C12_Witness ==
  /\ pc = "demo0"
  /\ query # <<>>
  /\ api_key
  /\ oracle.kind = "text"
  /\ Hints = <<>>
  /\ Len(artworks) = 3
  /\ TokenSet(query) \cap FieldTokens(artworks[1]) = {}
  /\ TokenSet(query) \cap TitleTokens(artworks[3]) # {}
  /\ result.ordered[1] = 3

\* C13: the highlight set order_artworks returns identifies exactly the
\* first min(3, N) records of the returned order, N the number of input
\* artworks, and no other record.
C13_HighlightIsFirstThree ==
  pc = "demo0" =>
    LET N == Len(artworks)
        m == IF N < 3 THEN N ELSE 3
    IN  /\ Len(result.ordered) = N
        /\ \A i \in 1..N :
             i \in result.top3_ids <=> \E p \in 1..m : result.ordered[p] = i
        /\ result.top3_ids \subseteq 1..N
        /\ Cardinality(result.top3_ids) = m

\* five artworks, the fourth ranked first and the second not highlighted
C13_Witness ==
  /\ pc = "demo0"
  /\ Len(artworks) = 5
  /\ result.ordered[1] = 4
  /\ 4 \in result.top3_ids
  /\ 2 \notin result.top3_ids
  /\ Cardinality(result.top3_ids) = 3

\* the session holds no search text and no filter selection
SessionCleared ==
  /\ WidgetKeys \subseteq DOMAIN session_state
  /\ session_state["q"] = <<>>
  /\ session_state["artist_sel"] = "All"
  /\ session_state["suburb_sel"] = "All"
  /\ session_state["price_sel"] = "All"

\* C14: after the Refresh handler, whatever the search text and the filters
\* were, the session has q = "" and artist_sel = suburb_sel = price_sel =
\* "All" and a rerun is requested, and the run that follows applies no search
\* and no filter.
C14_RefreshResetsSession ==
  /\ [](event = "refresh" => (SessionCleared /\ run = "pending"))
  /\ [][event = "refresh" =>
          gallery' = [query |-> <<>>, recommended |-> FALSE, filters |-> {}]]_vars

\* the rerun after a click on Refresh, the page before it drawn with a
\* search and the three filters
C14_Witness ==
  /\ event = "refresh"
  /\ api_key
  /\ gallery.recommended
  /\ gallery.filters = {"artist_sel", "suburb_sel", "price_sel"}
  /\ SessionCleared
  /\ run = "pending"

\* the rank bonus of each artwork in this run, in 1/100
NameBoost ==
  LET boost == ai_boost(Hints, artworks, Len(Hints))
  IN  [i \in 1..Len(artworks) |->
         IF title_l(artworks[i]) \in DOMAIN boost THEN boost[title_l(artworks[i])] ELSE 0]

\* the title accepted as the close match of the k-th hint, <<>> if none
CloseMatch(k) ==
  get_close_matches(lower(Hints[k]), [i \in 1..Len(artworks) |-> title_l(artworks[i])], Cutoff)

\* C15: the artwork whose title is the accepted close match of the k-th
\* hint, k = 1, 2, 3, has rank bonus 1.0, 0.66, 0.33, and an artwork that is
\* the match of no hint has rank bonus 0, also when several hints resolve to
\* the same title.
C15_BonusByHintRank ==
  pc = "demo0" =>
    \A i \in 1..Len(artworks) :
      /\ \A k \in 1..Len(Hints) :
           CloseMatch(k) = <<title_l(artworks[i])>> => NameBoost[i] = <<100, 66, 33>>[k]
      /\ (\A k \in 1..Len(Hints) : CloseMatch(k) # <<title_l(artworks[i])>>)
           => NameBoost[i] = 0

\* C16: when two catalogue records share a title (compared in lower case)
\* and a hint matches that title, only the first of them in catalogue order
\* receives the rank bonus for that hint.
C16_FirstDuplicateOnly ==
  pc = "demo0" =>
    \A i, j \in 1..Len(artworks) :
      (/\ i < j
       /\ title_l(artworks[i]) = title_l(artworks[j])
       /\ \E k \in 1..Len(Hints) : CloseMatch(k) = <<title_l(artworks[i])>>)
        => NameBoost[j] = 0

\* the hints the ESAG page reads from the reply
EsagHints ==
  IF oracle.kind = "text" THEN esag_titles(strip(oracle.content, Whitespace)) ELSE <<>>

\* every hint a reply can yield and every title a catalogue can hold, and
\* the similarity ratio of each pair
EsagHintPool ==
  UNION {{h[k] : k \in 1..Len(h)} : h \in {esag_titles(strip(t, Whitespace)) : t \in Replies}}
TitlePool == {lower(get(r, "title", <<>>)) : r \in Records}
SimilarityTable == [h \in EsagHintPool |-> [t \in TitlePool |-> ratio(h, t)]]

\* the similarity of a hint to the title of artwork i
Similarity(hint, i) == SimilarityTable[hint][lower(get(artworks[i], "title", <<>>))]

\* the artwork of the largest similarity to the hint among the candidates,
\* the first of them in catalogue order; 0 if there is no candidate
ArgMax(hint, candidates) ==
  LET sim == [i \in candidates |-> Similarity(hint, i)]
  IN  IF candidates = {} THEN 0
      ELSE CHOOSE i \in candidates :
             \A j \in candidates :
               \/ FracLess(sim[j], sim[i])
               \/ FracEq(sim[j], sim[i]) /\ i <= j

\* the matched artworks after the first k hints when each hint is resolved
\* among the artworks no earlier hint has used
RECURSIVE MatchedAmongUnused(_)
MatchedAmongUnused(k) ==
  IF k = 0 THEN <<>>
  ELSE LET before == MatchedAmongUnused(k - 1)
           unused == (1..Len(artworks)) \ {before[p] : p \in 1..Len(before)}
           best == ArgMax(EsagHints[k], unused)
       IN  IF best # 0 /\ FracLeq(Threshold, Similarity(EsagHints[k], best))
           THEN Append(before, best)
           ELSE before

\* C17: the ESAG page resolves each hint to the title of the highest
\* similarity among the titles no earlier hint has used, so a hint whose
\* overall best title is used goes to its best unused title when that ratio
\* meets the threshold.
C17_ResolvedAmongUnused ==
  (pc = "esag" /\ query # <<>> /\ EsagHints # <<>> /\ Len(EsagHints) <= MaxTitles)
    => LET matched == MatchedAmongUnused(Len(EsagHints))
       IN  SubSeq(result.ordered, 1, Len(matched)) = matched

\* the hints the matching loop goes through
ConsideredHints == Head_n(EsagHints, MaxTitles)

\* the artworks of the largest similarity to the hint
Ties(hint) ==
  LET sim == [i \in 1..Len(artworks) |-> Similarity(hint, i)]
  IN  {i \in 1..Len(artworks) : \A j \in 1..Len(artworks) : FracLeq(sim[j], sim[i])}

\* the lowest index of a non-empty set of indices
Lowest(S) == CHOOSE i \in S : \A j \in S : i <= j

\* the matched artworks after the first k hints when a hint goes to the
\* lowest index among its best titles, if that index is free and the ratio
\* meets the threshold
RECURSIVE LowestBestMatched(_)
LowestBestMatched(k) ==
  IF k = 0 THEN <<>>
  ELSE LET before == LowestBestMatched(k - 1)
           ties == Ties(ConsideredHints[k])
       IN  IF /\ ties # {}
              /\ Lowest(ties) \notin {before[p] : p \in 1..Len(before)}
              /\ FracLeq(Threshold, Similarity(ConsideredHints[k], Lowest(ties)))
           THEN Append(before, Lowest(ties))
           ELSE before

\* C18: when several catalogue titles have the same best similarity to a
\* hint, the hint resolves to the one of the lowest catalogue index: if that
\* artwork is free and the ratio meets the threshold, it takes the hint's
\* place in the returned list.
C18_TieToLowestIndex ==
  (pc = "esag" /\ query # <<>> /\ EsagHints # <<>>)
    => \A k \in 1..Len(ConsideredHints) :
         LET ties == Ties(ConsideredHints[k])
             before == LowestBestMatched(k - 1)
         IN  (/\ Cardinality(ties) > 1
              /\ Lowest(ties) \notin {before[p] : p \in 1..Len(before)}
              /\ FracLeq(Threshold, Similarity(ConsideredHints[k], Lowest(ties))))
               => /\ Len(result.ordered) > Len(before)
                  /\ result.ordered[Len(before) + 1] = Lowest(ties)

\* the second and the third artwork have the title the hint names; the
\* second goes first
C18_Witness ==
  /\ pc = "esag"
  /\ query # <<>>
  /\ Len(EsagHints) = 1
  /\ Len(artworks) = 3
  /\ Ties(EsagHints[1]) = {2, 3}
  /\ result.ordered = <<2, 1, 3>>

\* the hints without the k-th
WithoutHint(hints, k) == SubSeq(hints, 1, k - 1) \o SubSeq(hints, k + 1, Len(hints))

\* the order the page returns for a reply text that yields these hints
OrderFor(hints) ==
  LET first10 == Head_n(hints, MaxTitles)
  IN  IF hints = <<>> THEN identity(artworks)
      ELSE unused_after(artworks, esag_matched(artworks, first10, Len(first10)))

\* the artworks the hints before the k-th have taken
UsedBefore(k) ==
  LET n == IF k - 1 < Len(ConsideredHints) THEN k - 1 ELSE Len(ConsideredHints)
      before == LowestBestMatched(n)
  IN  {before[p] : p \in 1..Len(before)}

\* the number of artworks in the matched prefix
MatchedCount == Len(LowestBestMatched(Len(ConsideredHints)))

\* a hint below the threshold changes nothing; a hint at or above it whose
\* best title is free brings that artwork into the matched prefix
ThresholdRule ==
  \A k \in 1..Len(EsagHints) :
    LET ties == Ties(EsagHints[k])
        below == ties = {} \/ FracLess(Similarity(EsagHints[k], Lowest(ties)), <<35, 100>>)
    IN  /\ below => result.ordered = OrderFor(WithoutHint(EsagHints, k))
        /\ (~below /\ Lowest(ties) \notin UsedBefore(k)) => Pos(Lowest(ties)) <= MatchedCount

\* C19 as stated: a hint whose best similarity over the catalogue is below
\* 0.35 is discarded and the returned order is the one the reply without
\* that hint gives; a hint whose best ratio is at least 0.35 and whose best
\* title is unused moves that artwork into the matched prefix.
C19_ThresholdDiscards ==
  (pc = "esag" /\ query # <<>> /\ oracle.kind = "text") => ThresholdRule

\* C19 amended: the same for a reply that yields at most 10 hints.
C19_ThresholdDiscardsWithinTen ==
  (pc = "esag" /\ query # <<>> /\ oracle.kind = "text" /\ Len(EsagHints) <= MaxTitles)
    => ThresholdRule

\* the first hint is below the threshold for every title, the second names
\* the third artwork, which goes first
C19_Witness ==
  /\ pc = "esag"
  /\ query # <<>>
  /\ Len(EsagHints) = 2
  /\ Len(artworks) = 3
  /\ \A i \in 1..3 : FracLess(Similarity(EsagHints[1], i), <<35, 100>>)
  /\ \E i \in 1..3 : FracLess(<<0, 1>>, Similarity(EsagHints[1], i))
  /\ result.ordered = <<3, 1, 2>>

\* the artworks a hint matched, in the order in which they were matched
Matched == LowestBestMatched(Len(ConsideredHints))

\* the hint that matched artwork i: the first after which i is taken
HintOf(i) ==
  CHOOSE k \in 1..Len(ConsideredHints) :
    /\ i \in UsedBefore(k + 1)
    /\ i \notin UsedBefore(k)

\* C20: when the reply yields at least one hint, the list the ESAG page
\* returns is the matched artworks in the order of the hints that matched
\* them, followed by all unmatched artworks in catalogue order.
C20_MatchedThenUnmatched ==
  (pc = "esag" /\ query # <<>> /\ EsagHints # <<>>)
    => LET matched == Matched
           MatchedSet == {matched[p] : p \in 1..Len(matched)}
           hint == [i \in MatchedSet |-> HintOf(i)]
       IN  /\ PermutationOf(result.ordered, artworks)
           /\ \A p, q \in 1..Len(result.ordered) :
                p < q =>
                  LET a == result.ordered[p]
                      b == result.ordered[q]
                  IN  /\ (a \in MatchedSet /\ b \in MatchedSet) => hint[a] < hint[b]
                      /\ (a \notin MatchedSet /\ b \notin MatchedSet) => a < b
                      /\ ~(a \notin MatchedSet /\ b \in MatchedSet)

\* two hints: the first matched the fourth artwork, the second the third;
\* the other three follow in catalogue order
C20_Witness ==
  /\ pc = "esag"
  /\ query # <<>>
  /\ Len(EsagHints) = 2
  /\ Matched = <<4, 3>>
  /\ HintOf(4) = 1
  /\ result.ordered = <<4, 3, 1, 2, 5>>

\* the lines of a text
RECURSIVE SplitLines(_)
SplitLines(s) ==
  LET j == SkipTo(s, 1, {NL})
  IN  IF j > Len(s) THEN <<s>>
      ELSE <<Slice(s, 1, j)>> \o SplitLines(Slice(s, j + 1, Len(s) + 1))

\* the hint of one line: blanks, digits, a dot, then content whose part
\* before the first separator is not empty; <<>> when the line has none
LineHint(line) ==
  LET blank == Whitespace \ {NL}
      d == SkipIn(line, 1, blank)
      e == SkipIn(line, d, Digits)
      content == Slice(line, SkipIn(line, e + 1, blank), Len(line) + 1)
      t == title_part(content)
  IN  IF e > d /\ e <= Len(line) /\ line[e] = "." /\ t # <<>>
      THEN <<lower(t)>> ELSE <<>>

RECURSIVE StatedHints(_)
StatedHints(lines) ==
  IF lines = <<>> THEN <<>> ELSE LineHint(Head(lines)) \o StatedHints(Tail(lines))

\* C21: the hints read from a reply are, in order of appearance, one hint
\* for each numbered line whose text before the first separator is not
\* empty; a line without the numbered pattern gives no hint and no line
\* gives two
C21_OneHintPerNumberedLine ==
  pc = "hints" =>
    result.ranked_titles = StatedHints(SplitLines(oracle.content))

\* the record with every value that is not a str replaced by ""
AsEmpty(art) == [k \in DOMAIN art |-> IF isinstance_str(art[k]) THEN art[k] ELSE <<>>]

\* C22: compute_keyword_score never raises: a searchable field the record
\* lacks, or holds with a value that is not a str (the title included),
\* counts as the empty string and a score is returned
C22_NeverRaises ==
  pc = "score" =>
    /\ result.score # AttributeError
    /\ LET art == AsEmpty(artworks[1])
       IN  FracEq(result.score,
                  StatedScore(TokenSet(query), FieldTokens(art), TitleTokens(art)))

OracleTerms(w, kw) == <<5 * w[1] * kw[2] - 3 * kw[1] * w[2], 5 * w[2] * kw[2]>>

\* C24: order_artworks ranks an artwork of keyword score 1.0 before every
\* artwork of keyword score 0, whatever the hints: the oracle's terms add
\* at most 0.25 + 0.15 = 0.40 against 0.60 for the keywords
C24_FullMatchBeforeNoMatch ==
  pc = "demo0" =>
    LET n == Len(artworks)
        kw == Values(KeywordScores, n)
        w == Values(WeightedScores, n)
    IN  /\ \A i \in 1..n : FracLeq(OracleTerms(w[i], kw[i]), <<2, 5>>)
        /\ \A p, q \in 1..n :
             /\ FracEq(kw[result.ordered[p]], <<0, 1>>)
             /\ FracEq(kw[result.ordered[q]], <<1, 1>>)
             => q < p

\* the first hint is the title of an artwork without a query word, which
\* gets the full 0.40, and an artwork with every query word comes before it
C24_Witness ==
  /\ pc = "demo0"
  /\ LET n == Len(artworks)
         kw == Values(KeywordScores, n)
         w == Values(WeightedScores, n)
     IN  \E i, j \in 1..n :
           /\ j < i
           /\ FracEq(kw[i], <<1, 1>>)
           /\ FracEq(kw[j], <<0, 1>>)
           /\ FracEq(OracleTerms(w[j], kw[j]), <<2, 5>>)
           /\ FracLess(OracleTerms(w[i], kw[i]), <<2, 5>>)
           /\ Pos(i) < Pos(j)

\* the widgets whose stored value a step changed
WidgetsChanged ==
  {k \in WidgetKeys : widgets(session_state)[k] # session_state'[k]}

====
